---- MODULE Spec2Model ----
(***************************************************************************)
(* Model of trend_v1_to_opencti.py: the Trend Vision One feed connector.   *)
(* get_json (resilient GET), collect_all (nextLink pagination),            *)
(* flatten_objects_from_items (shape normaliser), chunked_bundles          *)
(* (packager), run_once (fallback ladder + import) and main (poll loop).   *)
(***************************************************************************)
EXTENDS Integers, Sequences, FiniteSets, TLC

(* ---------------------------------------------------------------------- *)
(* Bounds of the model                                                     *)
(* ---------------------------------------------------------------------- *)
MaxPages == 2      \* longest nextLink chain the modelled server serves
MaxItems == 2      \* longest raw-item list drawn as normaliser input
MaxObj   == 2      \* number of STIX objects in each objects array
MaxK     == 5      \* longest object list drawn as packager input
MaxM     == 3      \* largest MAX_OBJECTS_PER_BUNDLE drawn
MaxLoopPages == 4  \* pages followed against the server that never ends its chain
MaxClock == 6      \* last reading of the clock, in ticks

(* ---------------------------------------------------------------------- *)
(* Program constants                                                       *)
(* ---------------------------------------------------------------------- *)
max_retries == 5
BackoffStart == 1
BackoffCap == 16
RetryableStatuses_wide == {404, 429, 500, 502, 503, 504}
RetryableStatuses == {429, 500, 502, 503, 504}
OtherStatuses == {201, 404}
BaseUrl == "BASE/v3.0/threatintel/feeds"
RESPONSE_FORMAT == "taxiiEnvelope"
TopReportChoices == {100, 500}
TICKS_PER_SECOND == 2    \* clock readings are finer than the seconds of to_iso_z
POLL_TICKS == 4          \* POLL_MINUTES, in ticks

Min(a, b) == IF a < b THEN a ELSE b

(* ---------------------------------------------------------------------- *)
(* JSON values.  Every value is a record of the same shape so that any two *)
(* values can be compared; a missing key and a key of the wrong type read  *)
(* the same through dict.get + isinstance and share one encoding.          *)
(* ---------------------------------------------------------------------- *)
NotList == [isList |-> FALSE, elems |-> <<>>]
ListVal(s) == [isList |-> TRUE, elems |-> s]

NoEnv == [isDict |-> FALSE, objects |-> NotList]
EnvVal(objs) == [isDict |-> TRUE, objects |-> objs]

NoContent == [isDict |-> FALSE, type |-> "", objects |-> NotList, envelope |-> NoEnv]
ContentVal(t, objs, env) == [isDict |-> TRUE, type |-> t, objects |-> objs, envelope |-> env]

NoLink == "<none>"
EmptyLink == ""
Links == {"L1", "L2"}

MkDict(env, content, t, objs, value, link) ==
    [kind |-> "dict", elems |-> <<>>, envelope |-> env, content |-> content,
     type |-> t, objects |-> objs, value |-> value, nextLink |-> link]
MkList(s) ==
    [kind |-> "list", elems |-> s, envelope |-> NoEnv, content |-> NoContent,
     type |-> "", objects |-> NotList, value |-> NotList, nextLink |-> NoLink]
Scalar ==
    [kind |-> "scalar", elems |-> <<>>, envelope |-> NoEnv, content |-> NoContent,
     type |-> "", objects |-> NotList, value |-> NotList, nextLink |-> NoLink]

\* the value get_json returns for a 204
EmptyPage_none == Scalar
EmptyPage == MkDict(NoEnv, NoContent, "", NotList, ListVal(<<>>), NoLink)

(* ---------------------------------------------------------------------- *)
(* extract_items                                                           *)
(* ---------------------------------------------------------------------- *)
extract_items(pl) ==
    IF pl.kind = "list" THEN ListVal(pl.elems)
    ELSE IF pl.kind = "dict" /\ pl.value.isList THEN ListVal(pl.value.elems)
    ELSE NotList

(* ---------------------------------------------------------------------- *)
(* flatten_objects_from_items                                              *)
(* ---------------------------------------------------------------------- *)
\* one pass of the loop body: the objects the entry adds to objs
entry_objects_swapped(entry) ==
    IF entry.kind # "dict" THEN <<>>
    ELSE IF entry.objects.isList THEN entry.objects.elems
    ELSE IF entry.envelope.isDict /\ entry.envelope.objects.isList
        THEN entry.envelope.objects.elems
    ELSE IF entry.content.isDict /\ entry.content.type = "bundle"
               /\ entry.content.objects.isList
        THEN entry.content.objects.elems
    ELSE IF entry.content.isDict /\ entry.content.envelope.isDict
               /\ entry.content.envelope.objects.isList
        THEN entry.content.envelope.objects.elems
    ELSE <<>>

entry_objects_content_stops(entry) ==
    IF entry.kind # "dict" THEN <<>>
    ELSE IF entry.envelope.isDict /\ entry.envelope.objects.isList
        THEN entry.envelope.objects.elems
    ELSE IF entry.content.isDict /\ entry.content.type = "bundle"
               /\ entry.content.objects.isList
        THEN entry.content.objects.elems
    ELSE IF entry.content.isDict /\ entry.content.envelope.isDict
               /\ entry.content.envelope.objects.isList
        THEN entry.content.envelope.objects.elems
    ELSE IF entry.content.isDict THEN <<>>
    ELSE IF entry.type = "bundle" /\ entry.objects.isList
        THEN entry.objects.elems
    ELSE IF entry.objects.isList
        THEN entry.objects.elems
    ELSE <<>>

entry_objects(entry) ==
    IF entry.kind # "dict" THEN <<>>
    ELSE IF entry.envelope.isDict /\ entry.envelope.objects.isList
        THEN entry.envelope.objects.elems
    ELSE IF entry.content.isDict /\ entry.content.type = "bundle"
               /\ entry.content.objects.isList
        THEN entry.content.objects.elems
    ELSE IF entry.content.isDict /\ entry.content.envelope.isDict
               /\ entry.content.envelope.objects.isList
        THEN entry.content.envelope.objects.elems
    ELSE IF entry.type = "bundle" /\ entry.objects.isList
        THEN entry.objects.elems
    ELSE IF entry.objects.isList
        THEN entry.objects.elems
    ELSE <<>>

RECURSIVE flatten_loop(_, _, _)
flatten_loop(collected, i, objs) ==
    IF i > Len(collected) THEN objs
    ELSE flatten_loop(collected, i + 1, objs \o entry_objects(collected[i]))

flatten_objects_from_items(collected) == flatten_loop(collected, 1, <<>>)

(* ---------------------------------------------------------------------- *)
(* chunked_bundles                                                         *)
(* ---------------------------------------------------------------------- *)
\* uuid4: the n-th identifier drawn from the random source during the
\* chunked_bundles call number `call`; no two draws give the same value
uuid4(call, n) == <<call, n>>

\* all_objects[i:i+M] with i counted from 0
chunk_slice_wide(all_objects, i, M) ==
    SubSeq(all_objects, i + 1, Min(i + M + 1, Len(all_objects)))

chunk_slice_short(all_objects, i, M) ==
    SubSeq(all_objects, i + 1, Min(i + M, Len(all_objects)) - 1)

chunk_slice(all_objects, i, M) ==
    SubSeq(all_objects, i + 1, Min(i + M, Len(all_objects)))

RECURSIVE chunk_loop(_, _, _, _, _)
chunk_loop(all_objects, M, i, call, out) ==
    IF i >= Len(all_objects) THEN out
    ELSE LET chunk == chunk_slice(all_objects, i, M)
         IN  IF chunk = <<>>
             THEN chunk_loop(all_objects, M, i + M, call, out)
             ELSE chunk_loop(all_objects, M, i + M, call,
                      Append(out, [type |-> "bundle",
                                   id |-> uuid4(call, Len(out) + 1),
                                   objects |-> chunk]))

chunked_bundles(all_objects, M, call) ==
    IF all_objects = <<>> THEN <<>>
    ELSE chunk_loop(all_objects, M, 0, call, <<>>)

(* ---------------------------------------------------------------------- *)
(* State                                                                   *)
(* ---------------------------------------------------------------------- *)
VARIABLES
    pc,                      \* position of the process
    configOk,                \* OPENCTI_URL, OPENCTI_TOKEN and TV1_API_KEY all set
    TOP_REPORT_DEFAULT,      \* configured page size
    MAX_OBJECTS_PER_BUNDLE,  \* configured bundle size
    sizeIdx,                 \* run_once: position in fallback_sizes
    tried,                   \* run_once: sizes already attempted
    last_err,                \* run_once: last exception caught
    items,                   \* collect_all: raw items so far
    next_url,                \* collect_all: URL of the next request
    next_params,             \* collect_all: params of the next request
    page,                    \* collect_all: page counter
    payload,                 \* collect_all: page returned by get_json
    attempt,                 \* get_json: iterations of the retry loop done
    backoff,                 \* get_json: next backoff delay
    all_objs,                \* run_once: flattened STIX objects
    bundles,                 \* run_once: packaged bundles
    total_objs,              \* run_once: object count reported
    importIdx,               \* run_once: next bundle to import
    slept,                   \* history: delays slept in the current get_json call
    nGets,                   \* history: GETs issued by the current get_json call
    nRetry,                  \* history: retryable statuses seen by the current call
    lastStatus,              \* history: status of the last response (0: none)
    lastReq,                 \* history: URL and params of the last GET
    fetchCalls,              \* history: get_json calls of the current collect_all
    pagesSeen,               \* history: pages returned to the current collect_all
    imported,                \* history: import calls completed in this attempt
    importFailed,            \* history: an import call raised in this cycle
    failedSizes,             \* history: sizes whose attempt raised in this cycle
    lastTried,               \* history: index of the last ladder entry tried
    outcome,                 \* history: line printed at the end of the cycle
    now,                     \* the clock, in ticks
    start_dt,                \* run_once: start of the time window
    end_dt,                  \* run_once: end of the time window
    lastCT,                  \* history: Content-Type of the last response
    attemptSizes             \* history: sizes whose collection was started, in order

vars == <<pc, configOk, TOP_REPORT_DEFAULT, MAX_OBJECTS_PER_BUNDLE, sizeIdx, tried,
          last_err, items, next_url, next_params, page, payload, attempt, backoff,
          all_objs, bundles, total_objs, importIdx, slept, nGets, nRetry,
          lastStatus, lastReq, fetchCalls, pagesSeen, imported, importFailed,
          failedSizes, lastTried, outcome, now, start_dt, end_dt, lastCT,
          attemptSizes>>

configVars == <<configOk, TOP_REPORT_DEFAULT, MAX_OBJECTS_PER_BUNDLE>>
ladderVars == <<sizeIdx, tried, last_err, failedSizes, lastTried, attemptSizes>>
timeVars == <<now, start_dt, end_dt>>
collectVars == <<items, next_url, next_params, page, payload, fetchCalls, pagesSeen>>
callVars == <<attempt, backoff, slept, nGets, nRetry, lastStatus, lastCT>>
importVars == <<all_objs, bundles, total_objs, importIdx, imported>>

(* ---------------------------------------------------------------------- *)
(* Values of the orchestrator                                              *)
(* ---------------------------------------------------------------------- *)
NoParams == [present |-> FALSE, responseObjectFormat |-> "", topReport |-> 0,
             startDateTime |-> 0, endDateTime |-> 0]

\* to_iso_z: strftime to whole seconds plus the literal ".000Z"; the result
\* is the number of whole seconds, the fraction of the reading is lost
to_iso_z(dt) == dt \div TICKS_PER_SECOND

\* params = dict(base_params); params["topReport"] = size
attempt_params_now(size) ==
    [present |-> TRUE, responseObjectFormat |-> RESPONSE_FORMAT, topReport |-> size,
     startDateTime |-> to_iso_z(now - POLL_TICKS), endDateTime |-> to_iso_z(now)]
attempt_params(size) ==
    [present |-> TRUE, responseObjectFormat |-> RESPONSE_FORMAT, topReport |-> size,
     startDateTime |-> to_iso_z(start_dt), endDateTime |-> to_iso_z(end_dt)]

NoErr == [kind |-> "None", status |-> 0, at |-> 0]
\* an exception raised during the attempt at ladder position sizeIdx
Err(kind, status) == [kind |-> kind, status |-> status, at |-> sizeIdx]
AllFailedErr == [kind |-> "AllAttemptsFailed", status |-> 0, at |-> 0]

NoOutcome == [tag |-> "none", err |-> NoErr, bundles |-> 0, objects |-> 0]
NoReq == [url |-> "", params |-> NoParams]

fallback_sizes_reordered == <<TOP_REPORT_DEFAULT, 10, 25, 50, 100, 200>>
fallback_sizes == <<TOP_REPORT_DEFAULT, 200, 100, 50, 25, 10>>

\* truthiness of payload.get("nextLink")
has_next_never(link) == FALSE
has_next(link) == link # NoLink /\ link # EmptyLink

\* next_params = None once a nextLink is followed
cursor_params_kept(params) == params
cursor_params(params) == NoParams

next_backoff_linear(b) == Min(b + 1, BackoffCap)
next_backoff(b) == Min(b * 2, BackoffCap)

\* last_err = e
on_except_first(last, e) == IF last = NoErr THEN e ELSE last
on_except(last, e) == e

\* update=True of import_bundle_from_json
import_update_off == FALSE
import_update == TRUE

\* p = dict(payload); p.pop("nextLink", None)
page_as_item(pl) == [pl EXCEPT !.nextLink = NoLink]

(* ---------------------------------------------------------------------- *)
(* The feed server: the pages it may answer with                           *)
(* ---------------------------------------------------------------------- *)
ObjsFrom(base) == [i \in 1..MaxObj |-> base + i]
ItemEnvelope == MkDict(EnvVal(ListVal(ObjsFrom(0))), NoContent, "", NotList, NotList, NoLink)
ItemContent == MkDict(NoEnv, ContentVal("bundle", ListVal(<<MaxObj + 1>>), NoEnv), "",
                      NotList, NotList, NoLink)
ItemJunk == MkDict(NoEnv, NoContent, "indicator", NotList, NotList, NoLink)

ServerLinks(allowLink) == IF allowLink THEN {NoLink} \cup Links ELSE {NoLink}
ServerPages(allowLink) ==
    {MkDict(NoEnv, NoContent, "", NotList, ListVal(v), l) :
        v \in {<<>>, <<ItemEnvelope>>, <<ItemJunk, ItemContent>>},
        l \in ServerLinks(allowLink)}
    \cup {MkDict(EnvVal(ListVal(<<MaxObj + 2>>)), NoContent, "", NotList, NotList, l) :
        l \in ServerLinks(allowLink)}
    \cup {MkDict(NoEnv, NoContent, "", NotList, ListVal(<<ItemJunk>>), EmptyLink),
          MkList(<<ItemContent>>), Scalar}

(* ---------------------------------------------------------------------- *)
(* Initial states                                                          *)
(* ---------------------------------------------------------------------- *)
CallIdle ==
    /\ attempt = 0 /\ backoff = BackoffStart /\ slept = <<>>
    /\ nGets = 0 /\ nRetry = 0 /\ lastStatus = 0 /\ lastCT = ""
CollectIdle ==
    /\ next_url = BaseUrl /\ next_params = NoParams /\ page = 1
    /\ payload = Scalar /\ fetchCalls = 0 /\ pagesSeen = <<>> /\ lastReq = NoReq
LadderIdle ==
    /\ sizeIdx = 1 /\ tried = {} /\ last_err = NoErr /\ failedSizes = {}
    /\ lastTried = 0 /\ importFailed = FALSE /\ outcome = NoOutcome
    /\ attemptSizes = <<>>
ImportIdle ==
    /\ total_objs = 0 /\ importIdx = 1 /\ imported = <<>>
TimeIdle ==
    /\ now = 0 /\ start_dt = 0 /\ end_dt = 0

Init ==
    /\ pc = "main"
    /\ configOk \in BOOLEAN
    /\ TOP_REPORT_DEFAULT \in TopReportChoices
    /\ MAX_OBJECTS_PER_BUNDLE \in {1, MaxM}
    /\ items = <<>> /\ all_objs = <<>> /\ bundles = <<>>
    /\ CallIdle /\ CollectIdle /\ LadderIdle /\ ImportIdle /\ TimeIdle

(* ---------------------------------------------------------------------- *)
(* main                                                                    *)
(* ---------------------------------------------------------------------- *)
\* the configuration check and the client construction
main ==
    /\ pc = "main"
    /\ pc' = IF configOk THEN "run_once" ELSE "exit"
    /\ UNCHANGED <<configVars, timeVars, ladderVars, collectVars, callVars, importVars,
                   lastReq, importFailed, outcome>>

\* time.sleep(SLEEP_SECONDS), then the next iteration of while True
main_sleep ==
    /\ pc = "sleep"
    /\ pc' = "run_once"
    /\ UNCHANGED <<configVars, timeVars, ladderVars, collectVars, callVars, importVars,
                   lastReq, importFailed, outcome>>

(* ---------------------------------------------------------------------- *)
(* run_once                                                                *)
(* ---------------------------------------------------------------------- *)
\* window, session, headers, base_params, fallback_sizes, tried, last_err
run_once ==
    /\ pc = "run_once"
    /\ pc' = "ladder"
    /\ sizeIdx' = 1 /\ tried' = {} /\ last_err' = NoErr /\ failedSizes' = {}
    /\ lastTried' = 0 /\ importFailed' = FALSE /\ outcome' = NoOutcome
    /\ attemptSizes' = <<>>
    /\ items' = <<>> /\ next_url' = BaseUrl /\ next_params' = NoParams /\ page' = 1
    /\ payload' = Scalar /\ fetchCalls' = 0 /\ pagesSeen' = <<>> /\ lastReq' = NoReq
    /\ attempt' = 0 /\ backoff' = BackoffStart /\ slept' = <<>>
    /\ nGets' = 0 /\ nRetry' = 0 /\ lastStatus' = 0 /\ lastCT' = ""
    /\ all_objs' = <<>> /\ bundles' = <<>> /\ total_objs' = 0 /\ importIdx' = 1
    /\ imported' = <<>>
    /\ end_dt' = now
    /\ start_dt' = now - POLL_TICKS
    /\ UNCHANGED <<configVars, now>>

\* entering get_json: backoff = 1 and a fresh retry loop
StartCall ==
    /\ attempt' = 0 /\ backoff' = BackoffStart /\ slept' = <<>>
    /\ nGets' = 0 /\ nRetry' = 0 /\ lastStatus' = 0 /\ lastCT' = ""
    /\ fetchCalls' = fetchCalls + 1

\* except Exception as e: last_err = e; continue
Except(e) ==
    /\ last_err' = on_except(last_err, e)
    /\ failedSizes' = failedSizes \cup {fallback_sizes[sizeIdx]}
    /\ sizeIdx' = sizeIdx + 1
    /\ pc' = "ladder"
    /\ UNCHANGED <<tried, lastTried, attemptSizes>>

\* for size in fallback_sizes: a size already tried is skipped
ladder_skip ==
    /\ pc = "ladder"
    /\ sizeIdx <= Len(fallback_sizes)
    /\ fallback_sizes[sizeIdx] \in tried
    /\ sizeIdx' = sizeIdx + 1
    /\ UNCHANGED <<pc, configVars, timeVars, tried, last_err, failedSizes, lastTried, attemptSizes,
                   collectVars,
                   callVars, importVars, lastReq, importFailed, outcome>>

\* items: List = [] at the top of collect_all
initial_items_kept(previous) == previous
initial_items(previous) == <<>>

\* a new size: params are built and collect_all makes its first get_json call
ladder_try ==
    /\ pc = "ladder"
    /\ sizeIdx <= Len(fallback_sizes)
    /\ fallback_sizes[sizeIdx] \notin tried
    /\ tried' = tried \cup {fallback_sizes[sizeIdx]}
    /\ lastTried' = sizeIdx
    /\ attemptSizes' = Append(attemptSizes, fallback_sizes[sizeIdx])
    /\ items' = initial_items(items)
    /\ next_url' = BaseUrl
    /\ next_params' = attempt_params(fallback_sizes[sizeIdx])
    /\ page' = 1
    /\ pagesSeen' = <<>>
    /\ attempt' = 0 /\ backoff' = BackoffStart /\ slept' = <<>>
    /\ nGets' = 0 /\ nRetry' = 0 /\ lastStatus' = 0 /\ lastCT' = ""
    /\ fetchCalls' = 1
    /\ all_objs' = <<>> /\ bundles' = <<>> /\ total_objs' = 0 /\ importIdx' = 1
    /\ imported' = <<>>
    /\ payload' = Scalar /\ lastReq' = NoReq
    /\ pc' = "get"
    /\ UNCHANGED <<configVars, timeVars, sizeIdx, last_err, failedSizes, importFailed, outcome>>

\* except Exception as e: print [ERROR]; the loop of main goes on
main_on_exception_exits == "exit"
main_on_exception == "sleep"

\* the loop is over: raise last_err, caught and printed by main
ladder_exhausted ==
    /\ pc = "ladder"
    /\ sizeIdx > Len(fallback_sizes)
    /\ outcome' = [tag |-> "ERROR",
                   err |-> IF last_err # NoErr THEN last_err ELSE AllFailedErr,
                   bundles |-> 0, objects |-> 0]
    /\ pc' = main_on_exception
    /\ UNCHANGED <<configVars, timeVars, ladderVars, collectVars, callVars, importVars,
                   lastReq, importFailed>>

(* ---------------------------------------------------------------------- *)
(* get_json: one iteration of the retry loop per action                    *)
(* ---------------------------------------------------------------------- *)
\* session.get(url, headers=headers, params=params, timeout=60)
IssueGet ==
    /\ nGets' = nGets + 1
    /\ lastReq' = [url |-> next_url, params |-> next_params]

\* 200 with a JSON content type: return resp.json()
get_json_returns(pages) ==
    /\ pc = "get"
    /\ \E pl \in pages : payload' = pl
    /\ IssueGet
    /\ lastStatus' = 200 /\ lastCT' = "application/json"
    /\ pc' = "page"
    /\ UNCHANGED <<configVars, timeVars, ladderVars, items, next_url, next_params, page,
                   fetchCalls, pagesSeen, attempt, backoff, slept, nRetry,
                   importVars, importFailed, outcome>>

get_json_ok == get_json_returns(ServerPages(page < MaxPages))

\* 204: return the empty page
get_json_no_content ==
    /\ pc = "get"
    /\ payload' = EmptyPage
    /\ IssueGet
    /\ lastStatus' = 204 /\ lastCT' = ""
    /\ pc' = "page"
    /\ UNCHANGED <<configVars, timeVars, ladderVars, items, next_url, next_params, page,
                   fetchCalls, pagesSeen, attempt, backoff, slept, nRetry,
                   importVars, importFailed, outcome>>

\* 200 with another content type: raise RuntimeError
get_json_content_type ==
    /\ pc = "get"
    /\ IssueGet
    /\ lastStatus' = 200 /\ lastCT' = "text/html"
    /\ Except(Err("ContentType", 200))
    /\ UNCHANGED <<configVars, timeVars, collectVars, attempt, backoff, slept, nRetry,
                   importVars, importFailed, outcome>>

\* 429/500/502/503/504: sleep, double the backoff, next iteration; after the
\* last iteration the loop ends and 'Max retries exceeded' is raised
get_json_retryable ==
    /\ pc = "get"
    /\ \E s \in RetryableStatuses : lastStatus' = s
    /\ lastCT' = ""
    /\ IssueGet
    /\ slept' = Append(slept, backoff)
    /\ backoff' = next_backoff(backoff)
    /\ attempt' = attempt + 1
    /\ nRetry' = nRetry + 1
    /\ IF attempt + 1 < max_retries
       THEN UNCHANGED <<pc, ladderVars>>
       ELSE Except(Err("MaxRetries", 0))
    /\ UNCHANGED <<configVars, timeVars, collectVars, importVars, importFailed, outcome>>

\* any other status: raise RuntimeError with the body
get_json_other_status ==
    /\ pc = "get"
    /\ \E s \in OtherStatuses :
          /\ lastStatus' = s
          /\ lastCT' = ""
          /\ Except(Err("HTTP", s))
    /\ IssueGet
    /\ UNCHANGED <<configVars, timeVars, collectVars, attempt, backoff, slept, nRetry,
                   importVars, importFailed, outcome>>

\* session.get raises (connection reset, timeout): nothing in get_json or
\* collect_all catches it
get_json_network_error ==
    /\ pc = "get"
    /\ IssueGet
    /\ lastStatus' = 0 /\ lastCT' = ""
    /\ Except(Err("Network", 0))
    /\ UNCHANGED <<configVars, timeVars, collectVars, attempt, backoff, slept, nRetry,
                   importVars, importFailed, outcome>>

(* ---------------------------------------------------------------------- *)
(* collect_all: the body of while True after get_json returned             *)
(* ---------------------------------------------------------------------- *)
collected_after(its, pl) ==
    LET arr == extract_items(pl)
    IN  IF arr.isList THEN its \o arr.elems
        ELSE IF pl.kind = "dict" THEN Append(its, page_as_item(pl))
        ELSE its

next_link_of_nonempty(pl) ==
    IF pl.kind = "dict" /\ ~(pl.value.isList /\ pl.value.elems = <<>>)
    THEN pl.nextLink ELSE NoLink
next_link_of(pl) == IF pl.kind = "dict" THEN pl.nextLink ELSE NoLink

\* p = dict(payload): the pop acts on the copy, payload keeps its nextLink
payload_after_pop_aliased(pl) == [pl EXCEPT !.nextLink = NoLink]
payload_after_pop(pl) == pl

\* payload as it is when line 92 reads its nextLink
payload_after_body(pl) ==
    IF ~extract_items(pl).isList /\ pl.kind = "dict" THEN payload_after_pop(pl) ELSE pl

\* the page carries a nextLink: follow it with a new get_json call
collect_all_next ==
    /\ pc = "page"
    /\ has_next(next_link_of(payload_after_body(payload)))
    /\ items' = collected_after(items, payload)
    /\ payload' = payload_after_body(payload)
    /\ pagesSeen' = Append(pagesSeen, payload)
    /\ next_url' = next_link_of(payload_after_body(payload))
    /\ next_params' = cursor_params(next_params)
    /\ page' = page + 1
    /\ StartCall
    /\ pc' = "get"
    /\ UNCHANGED <<configVars, timeVars, ladderVars, importVars, lastReq,
                   importFailed, outcome>>

\* no nextLink: break and return items
collect_all_return ==
    /\ pc = "page"
    /\ ~has_next(next_link_of(payload_after_body(payload)))
    /\ items' = collected_after(items, payload)
    /\ payload' = payload_after_body(payload)
    /\ pagesSeen' = Append(pagesSeen, payload)
    /\ pc' = "collected"
    /\ attempt' = 0 /\ backoff' = BackoffStart /\ slept' = <<>>
    /\ nGets' = 0 /\ nRetry' = 0 /\ lastStatus' = 0 /\ lastCT' = ""
    /\ UNCHANGED <<configVars, timeVars, ladderVars, next_url, next_params, page,
                   fetchCalls, importVars, lastReq, importFailed, outcome>>

(* ---------------------------------------------------------------------- *)
(* run_once after collect_all returned                                     *)
(* ---------------------------------------------------------------------- *)
\* what run_once does when all_objs is empty
on_no_objects_fallback == "ladder"
on_no_objects == "sleep"

\* if not all_objs: print [INFO]; return
run_once_no_objects ==
    /\ pc = "collected"
    /\ flatten_objects_from_items(items) = <<>>
    /\ all_objs' = <<>>
    /\ pc' = on_no_objects
    /\ IF on_no_objects = "sleep"
       THEN /\ outcome' = [tag |-> "INFO", err |-> NoErr, bundles |-> 0, objects |-> 0]
            /\ UNCHANGED sizeIdx
       ELSE /\ sizeIdx' = sizeIdx + 1
            /\ UNCHANGED outcome
    /\ UNCHANGED <<configVars, timeVars, tried, last_err, failedSizes, lastTried, attemptSizes,
                   collectVars,
                   callVars, bundles, total_objs, importIdx, imported, lastReq, importFailed>>

\* total_objs = sum(len(b.get("objects", [])) for b in bundles)
RECURSIVE sum_objects(_, _)
sum_objects(bs, i) ==
    IF i > Len(bs) THEN 0 ELSE Len(bs[i].objects) + sum_objects(bs, i + 1)

\* bundles = chunked_bundles(all_objs); total_objs = ...
run_once_package ==
    /\ pc = "collected"
    /\ flatten_objects_from_items(items) # <<>>
    /\ all_objs' = flatten_objects_from_items(items)
    /\ bundles' = chunked_bundles(all_objs', MAX_OBJECTS_PER_BUNDLE, sizeIdx)
    /\ total_objs' = sum_objects(bundles', 1)
    /\ importIdx' = 1
    /\ pc' = "import"
    /\ UNCHANGED <<configVars, timeVars, ladderVars, collectVars, callVars, imported, lastReq,
                   importFailed, outcome>>

\* the for loop is over: print [OK]; return
run_once_imported ==
    /\ pc = "import"
    /\ importIdx > Len(bundles)
    /\ outcome' = [tag |-> "OK", err |-> NoErr, bundles |-> Len(bundles),
                   objects |-> total_objs]
    /\ pc' = "sleep"
    /\ UNCHANGED <<configVars, timeVars, ladderVars, collectVars, callVars, importVars, lastReq, importFailed>>

\* client.stix2.import_bundle_from_json(json.dumps(b), update=True) returns
import_bundle_ok ==
    /\ pc = "import"
    /\ importIdx <= Len(bundles)
    /\ imported' = Append(imported, [bundle |-> bundles[importIdx],
                                     update |-> import_update])
    /\ importIdx' = importIdx + 1
    /\ UNCHANGED <<pc, configVars, timeVars, ladderVars, collectVars, callVars, all_objs, bundles,
                   total_objs, lastReq, importFailed, outcome>>

\* the import call raises: caught by the except of the ladder loop
import_bundle_raises ==
    /\ pc = "import"
    /\ importIdx <= Len(bundles)
    /\ importFailed' = TRUE
    /\ Except(Err("Import", 0))
    /\ UNCHANGED <<configVars, timeVars, collectVars, callVars, importVars, lastReq,
                   outcome>>

Next ==
    \/ main
    \/ main_sleep
    \/ run_once
    \/ ladder_skip
    \/ ladder_try
    \/ ladder_exhausted
    \/ get_json_ok
    \/ get_json_no_content
    \/ get_json_content_type
    \/ get_json_retryable
    \/ get_json_other_status
    \/ get_json_network_error
    \/ collect_all_next
    \/ collect_all_return
    \/ run_once_no_objects
    \/ run_once_package
    \/ run_once_imported
    \/ import_bundle_ok
    \/ import_bundle_raises

Spec == Init /\ [][Next]_vars

(* ---------------------------------------------------------------------- *)
(* flatten_objects_from_items on its own: inputs drawn from every          *)
(* combination of the four shapes the function looks at                    *)
(* ---------------------------------------------------------------------- *)
FlattenEntries ==
    {MkDict(e, c, t, o, NotList, NoLink) :
        e \in {NoEnv, EnvVal(NotList), EnvVal(ListVal(ObjsFrom(0)))},
        c \in {NoContent} \cup
              {ContentVal(ct, co, ce) :
                  ct \in {"bundle", "report"},
                  co \in {NotList, ListVal(ObjsFrom(MaxObj))},
                  ce \in {NoEnv, EnvVal(ListVal(ObjsFrom(2 * MaxObj)))}},
        t \in {"bundle", ""},
        o \in {NotList, ListVal(ObjsFrom(3 * MaxObj))}}
    \cup {Scalar}

PureIdle ==
    /\ configOk = TRUE /\ TOP_REPORT_DEFAULT = 100
    /\ CallIdle /\ CollectIdle /\ LadderIdle /\ ImportIdle /\ TimeIdle

InitFlatten ==
    /\ pc = "flatten_call"
    /\ \E k \in 0..MaxItems : items \in [1..k -> FlattenEntries]
    /\ all_objs = <<>> /\ bundles = <<>>
    /\ MAX_OBJECTS_PER_BUNDLE = 1
    /\ PureIdle

flatten_call ==
    /\ pc = "flatten_call"
    /\ all_objs' = flatten_objects_from_items(items)
    /\ pc' = "flatten_ret"
    /\ UNCHANGED <<configVars, timeVars, ladderVars, collectVars, callVars, bundles, total_objs,
                   importIdx, imported, lastReq, importFailed, outcome>>

NextFlatten == flatten_call

SpecFlatten == InitFlatten /\ [][NextFlatten]_vars

(* ---------------------------------------------------------------------- *)
(* chunked_bundles on its own                                              *)
(* ---------------------------------------------------------------------- *)
InitChunk ==
    /\ pc = "chunk_call"
    /\ \E k \in 0..MaxK : all_objs \in [1..k -> 1..MaxObj]
    /\ MAX_OBJECTS_PER_BUNDLE \in 1..MaxM
    /\ items = <<>> /\ bundles = <<>>
    /\ PureIdle

chunk_call ==
    /\ pc = "chunk_call"
    /\ bundles' = chunked_bundles(all_objs, MAX_OBJECTS_PER_BUNDLE, 0)
    /\ pc' = "chunk_ret"
    /\ UNCHANGED <<configVars, timeVars, ladderVars, collectVars, callVars, all_objs, total_objs,
                   importIdx, imported, lastReq, importFailed, outcome>>

NextChunk == chunk_call

SpecChunk == InitChunk /\ [][NextChunk]_vars

(* ---------------------------------------------------------------------- *)
(* Properties                                                              *)
(* ---------------------------------------------------------------------- *)
FetchErrorKinds == {"MaxRetries", "ContentType", "HTTP", "Network"}
LadderSizes == {fallback_sizes[i] : i \in 1..Len(fallback_sizes)}

\* C1: once an import call has raised in a cycle, the cycle is over: no
\* GET is issued, no page is processed and no bundle is imported for a later
\* ladder entry of that cycle.
C1_ImportFailureEndsCycle ==
    importFailed =>
        ~(pc \in {"page", "collected", "import"} \/ (pc = "get" /\ nGets > 0))

\* C2: a network-level failure of the GET is retried inside get_json: a
\* call that ended with the network error has used up the whole budget of
\* max_retries GETs, it did not fail on the first such failure.
C2_NetworkFailureRetried ==
    (pc = "ladder" /\ last_err.kind = "Network" /\ last_err.at = lastTried)
        => nGets = max_retries

\* C3: a get_json call that returns on a 200 after k retryable statuses
\* made exactly k+1 GETs, k <= 4, and slept the first k of the delays 1, 2,
\* 4, 8; five retryable statuses end the call with 'Max retries exceeded'
\* after exactly 5 GETs; no call makes a 6th GET and no delay exceeds 16.
C3_RetryPolicy ==
    /\ nGets <= max_retries
    /\ \A i \in DOMAIN slept : slept[i] <= BackoffCap
    /\ (pc = "page" /\ lastStatus = 200) =>
          /\ nRetry \in 0..4
          /\ nGets = nRetry + 1
          /\ slept = SubSeq(<<1, 2, 4, 8>>, 1, nRetry)
    /\ (pc = "get") => (nRetry < max_retries /\ nGets = nRetry)
    /\ (nRetry = max_retries) =>
          /\ pc \notin {"get", "page", "collected", "import"}
          /\ last_err.kind = "MaxRetries"
          /\ nGets = max_retries
    /\ (pc = "ladder" /\ last_err.kind = "MaxRetries" /\ last_err.at = lastTried) =>
          (nRetry = max_retries /\ nGets = max_retries)

\* C3 witness: 503 four times then 200, delays 1, 2, 4, 8
C3_Witness ==
    pc = "page" /\ lastStatus = 200 /\ nRetry = 4 /\ slept = <<1, 2, 4, 8>>

\* C4: every GET of the first page goes to the base URL with the initial
\* params of the attempt; every GET of a later page, retries included, goes
\* to the previous page's nextLink with no params.
C4_CursorRule ==
    [][ (nGets' = nGets + 1) =>
          lastReq' = IF page = 1
                     THEN [url |-> BaseUrl,
                           params |-> attempt_params(fallback_sizes[sizeIdx])]
                     ELSE [url |-> payload.nextLink, params |-> NoParams] ]_vars

\* C4 witness: a nextLink page has been requested a second time
C4_Witness ==
    pc = "get" /\ page > 1 /\ nGets >= 2 /\ lastReq.url \in Links
    /\ lastReq.params = NoParams

\* the items one page contributes, as the collector rule states it
PageItems(pl) ==
    IF pl.kind = "list" THEN pl.elems
    ELSE IF pl.kind = "dict" /\ pl.value.isList THEN pl.value.elems
    ELSE IF pl.kind = "dict" THEN <<[pl EXCEPT !.nextLink = NoLink]>>
    ELSE <<>>

RECURSIVE ConcatPageItems(_)
ConcatPageItems(ps) ==
    IF ps = <<>> THEN <<>> ELSE PageItems(Head(ps)) \o ConcatPageItems(Tail(ps))

CarriesLink(pl) == pl.kind = "dict" /\ pl.nextLink \notin {NoLink, EmptyLink}

\* C5: when collect_all returns, the pages it received form a chain in which
\* every page but the last carries a nextLink, it made exactly one get_json
\* call per page, and its result is the concatenation of the pages' items in
\* arrival order.
C5_CollectChain ==
    (pc = "collected") =>
        /\ pagesSeen # <<>>
        /\ fetchCalls = Len(pagesSeen)
        /\ \A i \in 1..(Len(pagesSeen) - 1) : CarriesLink(pagesSeen[i])
        /\ ~CarriesLink(pagesSeen[Len(pagesSeen)])
        /\ items = ConcatPageItems(pagesSeen)

\* C5 witness: a chain of at least two pages that produced several items
C5_Witness ==
    pc = "collected" /\ Len(pagesSeen) >= 2 /\ Len(items) >= 3

\* C6: a failed attempt leaves its error in last_err and moves to the next
\* ladder entry; the cycle is reported as failed only when every ladder size
\* has been tried and has failed, and the error reported is the one of the
\* last entry tried.
C6_LadderOnFailure ==
    /\ (pc = "ladder" /\ sizeIdx > 1) =>
          /\ last_err # NoErr
          /\ last_err.at = lastTried
          /\ lastTried < sizeIdx
          /\ failedSizes = tried
    /\ (outcome.tag = "ERROR") =>
          /\ pc \in {"sleep", "run_once"}
          /\ tried = LadderSizes
          /\ failedSizes = LadderSizes
          /\ outcome.err = last_err
          /\ outcome.err.at = lastTried

\* C6 witness: every entry failed on its fetch and the cycle reported it
C6_Witness ==
    /\ outcome.tag = "ERROR" /\ ~importFailed
    /\ outcome.err.kind \in FetchErrorKinds
    /\ Cardinality(failedSizes) >= 5

\* the objects an item contributes, rule by rule
Rule1(e) == e.kind = "dict" /\ e.envelope.isDict /\ e.envelope.objects.isList
Rule2a(e) == e.kind = "dict" /\ e.content.isDict /\ e.content.type = "bundle"
                /\ e.content.objects.isList
Rule2b(e) == e.kind = "dict" /\ e.content.isDict /\ e.content.envelope.isDict
                /\ e.content.envelope.objects.isList
Rule3(e) == e.kind = "dict" /\ e.type = "bundle" /\ e.objects.isList
Rule4(e) == e.kind = "dict" /\ e.objects.isList

Contribution(e) ==
    CASE Rule1(e) -> e.envelope.objects.elems
      [] ~Rule1(e) /\ Rule2a(e) -> e.content.objects.elems
      [] ~Rule1(e) /\ ~Rule2a(e) /\ Rule2b(e) -> e.content.envelope.objects.elems
      [] ~Rule1(e) /\ ~Rule2a(e) /\ ~Rule2b(e) /\ Rule3(e) -> e.objects.elems
      [] ~Rule1(e) /\ ~Rule2a(e) /\ ~Rule2b(e) /\ ~Rule3(e) /\ Rule4(e) -> e.objects.elems
      [] OTHER -> <<>>

RECURSIVE ConcatContributions(_)
ConcatContributions(es) ==
    IF es = <<>> THEN <<>>
    ELSE Contribution(Head(es)) \o ConcatContributions(Tail(es))

\* C7: when a collection has returned and its items hold no recognised STIX
\* object (no items at all, or only unrecognised ones), the next step of
\* run_once ends the cycle with the [INFO] line: no import call, no further
\* GET, the ladder position unchanged.
C7_NoObjectsEndsCycle ==
    [][ (pc = "collected" /\ ConcatContributions(items) = <<>>) =>
          /\ pc' = "sleep"
          /\ outcome'.tag = "INFO"
          /\ imported' = imported /\ imported = <<>>
          /\ lastReq' = lastReq
          /\ sizeIdx' = sizeIdx /\ lastTried' = lastTried /\ tried' = tried ]_vars

\* C7 witness: the cycle ended on raw items of an unrecognised shape while
\* later ladder entries were still untried
C7_Witness ==
    /\ pc = "sleep" /\ outcome.tag = "INFO" /\ items # <<>>
    /\ lastTried < Len(fallback_sizes) /\ imported = <<>>

\* C8: when the cycle reports [OK], every bundle was imported exactly once,
\* in packaging order, with update = true; the bundle count reported is the
\* number of bundles (> 0), the object count is the number of flattened
\* objects, and the cycle is over.
C8_SuccessfulImport ==
    (outcome.tag = "OK") =>
        /\ pc \in {"sleep", "run_once"}
        /\ Len(bundles) > 0
        /\ imported = [i \in 1..Len(bundles) |-> [bundle |-> bundles[i], update |-> TRUE]]
        /\ outcome.bundles = Len(bundles)
        /\ outcome.objects = Len(ConcatContributions(items))
        /\ all_objs = ConcatContributions(items)

\* C8 witness: a cycle that imported several bundles
C8_Witness ==
    outcome.tag = "OK" /\ Len(bundles) >= 2 /\ Len(imported) >= 2

\* C9: the output of flatten_objects_from_items is the concatenation, in
\* item order, of what the first matching rule (envelope, content,
\* item-as-bundle, direct objects) gives for each item; an item with both an
\* envelope objects array and a direct objects array gives the envelope's.
C9_FlattenRuleOrder ==
    (pc = "flatten_ret") =>
        /\ all_objs = ConcatContributions(items)
        /\ \A i \in DOMAIN items :
              (Rule1(items[i]) /\ Rule4(items[i])) =>
                  Contribution(items[i]) = items[i].envelope.objects.elems

\* C9 witness: two items, one of them with both an envelope and direct objects
C9_Witness ==
    /\ pc = "flatten_ret" /\ Len(items) >= 2
    /\ \E i \in DOMAIN items : Rule1(items[i]) /\ Rule4(items[i])
    /\ \E i \in DOMAIN items : ~Rule1(items[i]) /\ Rule2b(items[i])

\* C10: chunked_bundles on K objects with maximum M >= 1 returns ceil(K/M)
\* bundles, all but the last of exactly M objects, the last of 1..M, with
\* pairwise distinct identifiers; the empty input gives the empty sequence.
C10_ChunkSizes ==
    (pc = "chunk_ret") =>
        LET K == Len(all_objs)
            M == MAX_OBJECTS_PER_BUNDLE
            n == Len(bundles)
        IN  /\ n = (K + M - 1) \div M
            /\ \A i \in 1..(n - 1) : Len(bundles[i].objects) = M
            /\ n > 0 => Len(bundles[n].objects) \in 1..M
            /\ \A i, j \in 1..n : i # j => bundles[i].id # bundles[j].id
            /\ (K = 0) => bundles = <<>>

\* C10 witness: several bundles, the last one short
C10_Witness ==
    /\ pc = "chunk_ret" /\ Len(bundles) >= 2
    /\ Len(bundles[Len(bundles)].objects) < MAX_OBJECTS_PER_BUNDLE

(* ---------------------------------------------------------------------- *)
(* flatten_objects_from_items, chunked_bundles, and the bundles flattened  *)
(* again                                                                   *)
(* ---------------------------------------------------------------------- *)
ItemDirect == MkDict(NoEnv, NoContent, "", ListVal(<<MaxObj + 3, MaxObj + 4>>), NotList,
                     NoLink)
ItemBundle == MkDict(NoEnv, NoContent, "bundle", ListVal(<<MaxObj + 5>>), NotList, NoLink)
RoundEntries == {ItemEnvelope, ItemContent, ItemDirect, ItemBundle, ItemJunk, Scalar}

\* a bundle built at line 152, read as an item by flatten_objects_from_items
bundle_as_item(b) == MkDict(NoEnv, NoContent, b.type, ListVal(b.objects), NotList, NoLink)

InitRound ==
    /\ pc = "round_call"
    /\ \E k \in 0..MaxItems : items \in [1..k -> RoundEntries]
    /\ MAX_OBJECTS_PER_BUNDLE \in 1..MaxM
    /\ all_objs = <<>> /\ bundles = <<>>
    /\ PureIdle

round_flatten ==
    /\ pc = "round_call"
    /\ all_objs' = flatten_objects_from_items(items)
    /\ pc' = "round_flat"
    /\ UNCHANGED <<configVars, timeVars, ladderVars, collectVars, callVars, bundles,
                   total_objs, importIdx, imported, lastReq, importFailed, outcome>>

round_chunk ==
    /\ pc = "round_flat"
    /\ bundles' = chunked_bundles(all_objs, MAX_OBJECTS_PER_BUNDLE, 0)
    /\ pc' = "round_chunked"
    /\ UNCHANGED <<configVars, timeVars, ladderVars, collectVars, callVars, all_objs,
                   total_objs, importIdx, imported, lastReq, importFailed, outcome>>

round_reflatten ==
    /\ pc = "round_chunked"
    /\ items' = [i \in 1..Len(bundles) |-> bundle_as_item(bundles[i])]
    /\ all_objs' = flatten_objects_from_items(items')
    /\ pc' = "round_done"
    /\ UNCHANGED <<configVars, timeVars, ladderVars, next_url, next_params, page, payload,
                   fetchCalls, pagesSeen, callVars, bundles, total_objs, importIdx,
                   imported, lastReq, importFailed, outcome>>

NextRound == round_flatten \/ round_chunk \/ round_reflatten

SpecRound == InitRound /\ [][NextRound]_vars

RECURSIVE ConcatObjects(_)
ConcatObjects(bs) ==
    IF bs = <<>> THEN <<>> ELSE Head(bs).objects \o ConcatObjects(Tail(bs))

\* C11: flattening the bundles that chunked_bundles made of a flattened
\* object sequence S gives S again, in order and content, for every maximum
\* M >= 1; so does concatenating the bundles' objects fields.
C11_RoundTrip ==
    [][ (pc = "round_chunked") =>
          /\ all_objs' = all_objs
          /\ ConcatObjects(bundles) = all_objs ]_vars

\* C11 witness: a sequence of several objects went through several bundles
C11_Witness ==
    /\ pc = "round_done" /\ Len(bundles) >= 2 /\ Len(all_objs) >= 3
    /\ MAX_OBJECTS_PER_BUNDLE >= 2

\* C12: a 204 makes get_json return the page {value: [], nextLink: null}
\* at once (no sleep, no error, the ladder untouched); collect_all returns on
\* that page without adding an item; and a collection made of that one page
\* ends the cycle with the [INFO] line, no import call and no further ladder
\* attempt.
C12_NoContentIsEmptyPage ==
    [][ /\ (nGets' = nGets + 1 /\ lastStatus' = 204) =>
              /\ pc' = "page"
              /\ payload'.kind = "dict"
              /\ payload'.value = [isList |-> TRUE, elems |-> <<>>]
              /\ payload'.nextLink = NoLink
              /\ slept' = slept /\ last_err' = last_err /\ sizeIdx' = sizeIdx
        /\ (pc = "page" /\ lastStatus = 204) =>
              /\ pc' = "collected"
              /\ items' = items
        /\ (pc = "collected" /\ Len(pagesSeen) = 1 /\ pagesSeen[1].kind = "dict"
              /\ pagesSeen[1].value = [isList |-> TRUE, elems |-> <<>>]) =>
              /\ pc' = "sleep"
              /\ outcome'.tag = "INFO"
              /\ imported = <<>> /\ imported' = <<>>
              /\ sizeIdx' = sizeIdx /\ lastReq' = lastReq ]_vars

\* C12 witness: the first GET of a collection was answered 204
C12_Witness ==
    /\ pc = "page" /\ lastStatus = 204 /\ nGets = 1 /\ page = 1
    /\ payload.value = [isList |-> TRUE, elems |-> <<>>] /\ slept = <<>>

\* C13: a response that is neither 200-with-JSON, 204 nor a retryable
\* status makes get_json raise on that GET: the attempt fails at once, with
\* no sleep after the response, however many iterations were left.
C13_NonRetryableFailsAtOnce ==
    [][ (/\ nGets' = nGets + 1
         /\ \/ lastStatus' \notin {0, 200, 204, 429, 500, 502, 503, 504}
            \/ (lastStatus' = 200 /\ lastCT' # "application/json")) =>
              /\ pc' = "ladder"
              /\ slept' = slept
              /\ last_err'.kind \in {"HTTP", "ContentType"}
              /\ last_err'.at = sizeIdx
              /\ sizeIdx' = sizeIdx + 1 ]_vars

\* C13 witness: a 404 after one retryable status, three iterations unused
C13_Witness ==
    /\ pc = "ladder" /\ last_err.kind = "HTTP" /\ last_err.at = lastTried
    /\ nGets = 2 /\ slept = <<1>> /\ lastStatus = 404

CyclePcs == {"run_once", "ladder", "get", "page", "collected", "import"}

\* C14: with the configuration present the process never exits; whenever
\* a cycle ends, by return or by exception, the process is at the
\* inter-cycle sleep, the sleep is followed by the start of the next cycle,
\* and a cycle starts only from the start-up or from the sleep, never while
\* another cycle is under way.
C14_LoopGoesOn ==
    [][ /\ (pc \in CyclePcs /\ pc' \notin CyclePcs) => pc' = "sleep"
        /\ (pc = "sleep") => pc' = "run_once"
        /\ (pc' = "run_once") => (pc = "sleep" \/ (pc = "main" /\ configOk))
        /\ configOk => pc' # "exit" ]_vars

\* C14 witness: a new cycle is starting after a cycle that ended in an error
C14_Witness ==
    pc = "run_once" /\ outcome.tag = "ERROR" /\ configOk

(* ---------------------------------------------------------------------- *)
(* collect_all against a server whose every answer carries a nextLink      *)
(* ---------------------------------------------------------------------- *)
LoopPages ==
    {MkDict(NoEnv, NoContent, "", NotList, ListVal(v), l) :
        v \in {<<>>, <<ItemJunk>>}, l \in Links}

\* the server answers 200 with a page that carries a nextLink, every time
get_json_linked ==
    /\ page <= MaxLoopPages
    /\ get_json_returns(LoopPages)

NextLoop ==
    \/ main
    \/ run_once
    \/ ladder_try
    \/ get_json_linked
    \/ collect_all_next

SpecLoop == Init /\ [][NextLoop]_vars

\* C15: as long as every page carries a nextLink, collect_all does not
\* return: after each page the only thing it can do is request the next link,
\* whatever the number of pages already fetched and even when the link is
\* the one it has just followed; the cycle gets no outcome.
C15_NoPageCap ==
    /\ pc \in {"main", "exit", "run_once", "ladder", "get", "page"}
    /\ outcome = NoOutcome
    /\ sizeIdx = 1
    /\ (pc = "page") => (ENABLED collect_all_next /\ ~ENABLED collect_all_return)
    /\ (pc \in {"get", "page"}) => (fetchCalls = page /\ page <= MaxLoopPages + 1)

\* C15 witness: the same link was served three times and followed each time
C15_Witness ==
    /\ pc = "get" /\ page >= 4 /\ Len(pagesSeen) >= 3
    /\ pagesSeen[1].nextLink = pagesSeen[2].nextLink
    /\ pagesSeen[2].nextLink = pagesSeen[3].nextLink
    /\ next_url = pagesSeen[3].nextLink

(* ---------------------------------------------------------------------- *)
(* The time window: the cycle with a clock that advances at any moment     *)
(* ---------------------------------------------------------------------- *)
\* time passes
tick ==
    /\ now < MaxClock
    /\ now' = now + 1
    /\ UNCHANGED <<pc, configVars, start_dt, end_dt, ladderVars, collectVars, callVars,
                   importVars, lastReq, importFailed, outcome>>

NextClock ==
    \/ main
    \/ main_sleep
    \/ run_once
    \/ ladder_skip
    \/ ladder_try
    \/ ladder_exhausted
    \/ get_json_no_content
    \/ get_json_network_error
    \/ collect_all_return
    \/ run_once_no_objects
    \/ tick

SpecClock == Init /\ [][NextClock]_vars

\* C16: the window is set at the start of a cycle, end to the clock reading
\* and start to that reading minus the poll interval, and at no other step;
\* the first request of every ladder attempt carries that window (in whole
\* seconds), however far the clock has moved since the cycle began.
C16_WindowPerCycle ==
    [][ /\ (pc = "run_once" /\ pc' # pc) =>
              (end_dt' = now /\ start_dt' = now - POLL_TICKS)
        /\ (pc # "run_once" \/ pc' = pc) =>
              (end_dt' = end_dt /\ start_dt' = start_dt)
        /\ (nGets' = nGets + 1 /\ page = 1) =>
              /\ lastReq'.params.present
              /\ lastReq'.params.endDateTime = end_dt \div TICKS_PER_SECOND
              /\ lastReq'.params.startDateTime =
                     (end_dt - POLL_TICKS) \div TICKS_PER_SECOND ]_vars

\* C16 witness: a later attempt of a cycle that began after the clock had
\* moved sent the window of the cycle start although the clock reads a later
\* second
C16_Witness ==
    /\ pc \in {"page", "ladder"} /\ nGets = 1 /\ lastTried >= 2 /\ end_dt > 0
    /\ now \div TICKS_PER_SECOND > end_dt \div TICKS_PER_SECOND
    /\ lastReq.params.present
    /\ lastReq.params.endDateTime = end_dt \div TICKS_PER_SECOND

\* the case of C17: a dict whose content is a dict that is neither a bundle
\* with an objects array nor the holder of an envelope with an objects array,
\* and that rule 1 has not already taken
ContentNoMatch(e) ==
    /\ e.kind = "dict" /\ e.content.isDict
    /\ ~(e.envelope.isDict /\ e.envelope.objects.isList)
    /\ ~(e.content.type = "bundle" /\ e.content.objects.isList)
    /\ ~(e.content.envelope.isDict /\ e.content.envelope.objects.isList)

\* C17: an item whose content is an object matching neither content sub-shape
\* still goes through rule 3 and rule 4: its part of the output is its own
\* objects array when it is a bundle with one or just has one, and it adds
\* nothing only when it has no objects array.
C17_ContentNoMatchFallsThrough ==
    (pc = "flatten_ret") =>
        \A i \in DOMAIN items :
            LET e == items[i]
                before == ConcatContributions(SubSeq(items, 1, i - 1))
                after == ConcatContributions(SubSeq(items, i + 1, Len(items)))
                own == IF e.type = "bundle" /\ e.objects.isList THEN e.objects.elems
                       ELSE IF e.objects.isList THEN e.objects.elems
                       ELSE <<>>
            IN  ContentNoMatch(e) =>
                    /\ all_objs = before \o own \o after
                    /\ (own = <<>>) <=> ~e.objects.isList

\* C17 witness: a non-bundle content that has an objects array of its own, on
\* an item with a direct objects array, next to an item that adds nothing
C17_Witness ==
    /\ pc = "flatten_ret"
    /\ \E i \in DOMAIN items :
          /\ ContentNoMatch(items[i]) /\ items[i].content.type = "report"
          /\ items[i].content.objects.isList /\ items[i].type = ""
          /\ items[i].objects.isList
          /\ all_objs = items[i].objects.elems
    /\ \E j \in DOMAIN items : ContentNoMatch(items[j]) /\ ~items[j].objects.isList

\* C18: for a page that is an object without a value array, collect_all
\* appends exactly one item, the page without its nextLink field, leaves the
\* fetched page as it was, and follows the page's nextLink when it carries
\* one (returning otherwise).
C18_PageObjectAsItem ==
    [][ (pc = "page" /\ pc' # pc /\ payload.kind = "dict" /\ ~payload.value.isList) =>
            /\ Len(items') = Len(items) + 1
            /\ SubSeq(items', 1, Len(items)) = items
            /\ items'[Len(items')] = [payload EXCEPT !.nextLink = NoLink]
            /\ items'[Len(items')].nextLink = NoLink
            /\ payload' = payload
            /\ CarriesLink(payload) =>
                  (pc' = "get" /\ next_url' = payload.nextLink /\ ~next_params'.present)
            /\ ~CarriesLink(payload) => pc' = "collected" ]_vars

\* C18 witness: the first page was an object with no value array and a
\* nextLink; it became the single item, without the link, and the link is the
\* URL of the next request
C18_Witness ==
    /\ pc = "get" /\ page = 2 /\ Len(items) = 1 /\ Len(pagesSeen) = 1
    /\ pagesSeen[1].kind = "dict" /\ ~pagesSeen[1].value.isList
    /\ pagesSeen[1].nextLink \in Links
    /\ items[1] = [pagesSeen[1] EXCEPT !.nextLink = NoLink]
    /\ payload = pagesSeen[1]
    /\ next_url = pagesSeen[1].nextLink

\* the pages received form a finished nextLink chain
ChainComplete(ps) ==
    /\ ps # <<>>
    /\ \A i \in 1..(Len(ps) - 1) : CarriesLink(ps[i])
    /\ ~CarriesLink(ps[Len(ps)])

\* C19: no partial collection is imported. Import is entered only from a
\* returned collect_all, and collect_all returns only on a page without a
\* nextLink; every import call sends objects of the whole finished chain of
\* the attempt; a fetch that fails ends the attempt with no import call, and
\* the next attempt starts with no items, at the base URL, with the params of
\* its own page size.
C19_NoPartialImport ==
    [][ /\ (pc' = "import" /\ pc # "import") => pc = "collected"
        /\ (pc' = "collected" /\ pc # "collected") =>
              (pc = "page" /\ ~CarriesLink(payload) /\ ChainComplete(pagesSeen'))
        /\ (pc = "import" /\ pc' # "sleep") =>
              /\ ChainComplete(pagesSeen)
              /\ Len(pagesSeen) = fetchCalls
              /\ ConcatObjects(bundles) = ConcatContributions(ConcatPageItems(pagesSeen))
        /\ (imported' # imported /\ imported' # <<>>) =>
              (pc = "import" /\ \E k \in DOMAIN bundles :
                                     imported'[Len(imported')].bundle = bundles[k])
        /\ (pc \in {"get", "page"}) => imported = <<>>
        /\ (pc = "get" /\ pc' = "ladder") => imported' = <<>>
        /\ (pc = "ladder" /\ pc' = "get") =>
              /\ items' = <<>> /\ pagesSeen' = <<>> /\ page' = 1
              /\ next_url' = BaseUrl
              /\ next_params'.present
              /\ next_params'.topReport = attemptSizes'[Len(attemptSizes')] ]_vars

\* C19 witness: the second page of an attempt failed after the first page
\* had given items; nothing was imported and the ladder goes on
C19_Witness ==
    /\ pc = "ladder" /\ page = 2 /\ items # <<>> /\ Len(pagesSeen) = 1
    /\ imported = <<>> /\ ~importFailed
    /\ last_err.at = lastTried /\ last_err.kind \in FetchErrorKinds
    /\ sizeIdx <= 6

\* the ladder as C20 states it: the configured size, then 200, 100, 50, 25,
\* 10 without the configured size
ExpectedLadder ==
    <<TOP_REPORT_DEFAULT>> \o
        SelectSeq(<<200, 100, 50, 25, 10>>, LAMBDA x : x # TOP_REPORT_DEFAULT)

\* C20: the sizes attempted in a cycle, in order, are a prefix of the
\* configured size followed by 200, 100, 50, 25, 10 with repeats skipped: the
\* configured size first, no size twice, at most 6 attempts and at most 5
\* when the configured size is one of the five; the ladder is exhausted only
\* after all of them were attempted.
C20_LadderSequence ==
    LET n == Len(attemptSizes)
    IN  /\ n <= Len(ExpectedLadder)
        /\ attemptSizes = SubSeq(ExpectedLadder, 1, n)
        /\ n > 0 => attemptSizes[1] = TOP_REPORT_DEFAULT
        /\ \A i, j \in 1..n : i # j => attemptSizes[i] # attemptSizes[j]
        /\ n <= 6
        /\ TOP_REPORT_DEFAULT \in {200, 100, 50, 25, 10} => n <= 5
        /\ (pc = "ladder" /\ ~ENABLED ladder_try /\ ~ENABLED ladder_skip) =>
              attemptSizes = ExpectedLadder
        /\ (pc \in {"get", "page", "collected", "import"}) =>
              (n > 0 /\ next_params.present => next_params.topReport = attemptSizes[n])

\* C20 witness: with 100 configured, the cycle attempted 100, 200, 50, 25, 10
\* and the ladder is exhausted
C20_Witness ==
    /\ configOk /\ TOP_REPORT_DEFAULT = 100
    /\ pc = "ladder" /\ sizeIdx = 7
    /\ attemptSizes = <<100, 200, 50, 25, 10>>

====
